---------------------------- MODULE Spec2Model ----------------------------
(***************************************************************************)
(* Vanta: the asset fetcher (scripts/download_model.py) and the session    *)
(* orchestrator (agent/agent.py), modelled as state machines.               *)
(*                                                                         *)
(* Fetcher: the filesystem below OUTPUT_PATH, the remote content behind    *)
(* MODEL_URL, and runs of main(), each a program counter over the          *)
(* statements of main().  Spec runs main() twice in succession, SpecConc   *)
(* runs the same two invocations interleaved.                              *)
(*                                                                         *)
(* Orchestrator: one invocation of entrypoint(ctx), a program counter over *)
(* its statements, the room it talks to, and the records of every external*)
(* call it makes and every log entry it writes (SpecAgent).                *)
(***************************************************************************)
EXTENDS Integers, Sequences, FiniteSets, TLC

\* ---------------------------------------------------------------- bounds
\* Longest remote content / pre-existing file, counted in transfer blocks.
MaxLen == 2
\* Join / leave events of the room during one orchestrator invocation.
MaxRoomEvents == 2

\* ------------------------------------------------------- program constants
\* OUTPUT_PATH = "app/src/main/assets/silero_vad.onnx": dirname has 4 components.
DirDepth == 4
\* Another model of the same family.
MODEL_NAME_STABLE == "gemini-2.0-flash"
\* model="gemini-2.0-flash-exp"
MODEL_NAME == "gemini-2.0-flash-exp"
MODEL_INSTRUCTIONS == "You are Vanta, a helpful assistant."
AGENT_INSTRUCTIONS == "You are Vanta."
GREETING == "Say hello to the user and introduce yourself as Vanta."

\* Values a transfer block can take; 0 is the zero fill of a hole in a file.
Block == {1, 2}
\* The invocations of main().
Run == {1, 2}
\* Identities that can be in the room.
Identity == {"alice", "bob"}
None == "None"
\* A local variable holding an object: not bound yet, or bound to v.
Unbound == <<>>
Bound(v) == <<v>>

RECURSIVE SeqsUpTo(_, _)
SeqsUpTo(S, n) ==
    IF n = 0 THEN {<<>>}
    ELSE LET shorter == SeqsUpTo(S, n - 1)
         IN  shorter \cup {Append(s, b) : s \in {t \in shorter : Len(t) = n - 1}, b \in S}

VARIABLES
    \* ---- filesystem and network (download_model.py)
    dirLevels,     \* how many leading components of dirname(OUTPUT_PATH) exist as directories
    blocked,       \* a non-directory sits at the first missing component
    fileExists,    \* OUTPUT_PATH exists
    fileData,      \* its content, a sequence of blocks
    urlContent,    \* what MODEL_URL serves
    \* ---- the runs of main()
    pc,            \* statement each run is at
    result,        \* how each run ended
    fetches,       \* network requests each run made
    mkdirs,        \* directories each run created
    opened,        \* the run opened OUTPUT_PATH for writing
    pos,           \* write offset of the run's open file
    sawOpened,     \* at the run's existence check some run had already opened OUTPUT_PATH
    startFs,       \* filesystem when the run started
    endFs,         \* filesystem when the run ended
    \* ---- entrypoint(ctx) (agent.py)
    apc,           \* statement entrypoint is at
    connected,     \* ctx.connect() has completed
    room,          \* identities present in the room
    roomEvents,    \* join/leave events so far
    waiter,        \* what the pending participant wait has been resolved with
    participant,   \* the local variable participant
    model,         \* the local variable model
    session,       \* the local variable session
    agent,         \* the local variable agent
    calls,         \* external calls made, in order
    log,           \* log entries written, in order
    raised         \* class of the exception that ended the try block

fvars == <<dirLevels, blocked, fileExists, fileData, urlContent, pc, result, fetches,
           mkdirs, opened, pos, sawOpened, startFs, endFs>>
avars == <<apc, connected, room, roomEvents, waiter, participant, model, session, agent,
           calls, log, raised>>
vars == <<fvars, avars>>

\* =========================================================================
\* scripts/download_model.py
\* =========================================================================

Fs == [dirs |-> dirLevels, exists |-> fileExists, data |-> fileData]
NoFs == [dirs |-> 0, exists |-> FALSE, data |-> <<>>]

InitFetcher ==
    /\ dirLevels \in 0..DirDepth
    /\ blocked \in BOOLEAN
    /\ blocked => dirLevels < DirDepth
    /\ fileExists \in BOOLEAN
    /\ fileExists => dirLevels = DirDepth
    /\ fileData \in SeqsUpTo(Block, MaxLen)
    /\ ~fileExists => fileData = <<>>
    /\ urlContent \in SeqsUpTo(Block, MaxLen)
    /\ pc = [p \in Run |-> "idle"]
    /\ result = [p \in Run |-> None]
    /\ fetches = [p \in Run |-> 0]
    /\ mkdirs = [p \in Run |-> 0]
    /\ opened = [p \in Run |-> FALSE]
    /\ pos = [p \in Run |-> 0]
    /\ sawOpened = [p \in Run |-> FALSE]
    /\ startFs = [p \in Run |-> NoFs]
    /\ endFs = [p \in Run |-> NoFs]

\* One fixed filesystem, for the specification that runs the orchestrator only.
IdleFetcher ==
    /\ dirLevels = 0 /\ blocked = FALSE /\ fileExists = FALSE /\ fileData = <<>>
    /\ urlContent = <<>>
    /\ pc = [p \in Run |-> "idle"]
    /\ result = [p \in Run |-> None]
    /\ fetches = [p \in Run |-> 0]
    /\ mkdirs = [p \in Run |-> 0]
    /\ opened = [p \in Run |-> FALSE]
    /\ pos = [p \in Run |-> 0]
    /\ sawOpened = [p \in Run |-> FALSE]
    /\ startFs = [p \in Run |-> NoFs]
    /\ endFs = [p \in Run |-> NoFs]

Ended(p) == pc[p] \in {"done", "raised"}

\* The run leaves main(): by return ("done") or by an uncaught exception ("raised").
\* fs is the filesystem it leaves behind.
Leave(p, how, res, fs) ==
    /\ pc' = [pc EXCEPT ![p] = how]
    /\ result' = [result EXCEPT ![p] = res]
    /\ endFs' = [endFs EXCEPT ![p] = fs]

\* python download_model.py, the second time only after the first has ended.
StartSeq(p) ==
    /\ pc[p] = "idle"
    /\ \A q \in Run : q < p => Ended(q)
    /\ pc' = [pc EXCEPT ![p] = "makedirs"]
    /\ startFs' = [startFs EXCEPT ![p] = Fs]
    /\ UNCHANGED <<dirLevels, blocked, fileExists, fileData, urlContent, result, fetches,
                   mkdirs, opened, pos, sawOpened, endFs, avars>>

\* python download_model.py, whatever the other invocation is doing.
StartConc(p) ==
    /\ pc[p] = "idle"
    /\ pc' = [pc EXCEPT ![p] = "makedirs"]
    /\ startFs' = [startFs EXCEPT ![p] = Fs]
    /\ UNCHANGED <<dirLevels, blocked, fileExists, fileData, urlContent, result, fetches,
                   mkdirs, opened, pos, sawOpened, endFs, avars>>

\* os.makedirs(..., exist_ok=False): a directory that is already there is an error.
MakedirsNoExistOk(p) ==
    /\ pc[p] = "makedirs"
    /\ \/ /\ dirLevels < DirDepth /\ ~blocked
          /\ dirLevels' = DirDepth
          /\ mkdirs' = [mkdirs EXCEPT ![p] = @ + (DirDepth - dirLevels)]
          /\ pc' = [pc EXCEPT ![p] = "exists"]
          /\ UNCHANGED <<result, endFs>>
       \/ /\ dirLevels = DirDepth \/ blocked
          /\ UNCHANGED <<dirLevels, mkdirs>>
          /\ Leave(p, "raised", "makedirs_failed", Fs)
    /\ UNCHANGED <<blocked, fileExists, fileData, urlContent, fetches, opened, pos,
                   sawOpened, startFs, avars>>

\* os.makedirs(os.path.dirname(OUTPUT_PATH), exist_ok=True)
Makedirs(p) ==
    /\ pc[p] = "makedirs"
    /\ \/ \* already a directory: nothing is created, nothing is raised
          /\ dirLevels = DirDepth
          /\ pc' = [pc EXCEPT ![p] = "exists"]
          /\ UNCHANGED <<dirLevels, mkdirs, result, endFs>>
       \/ \* the missing components are created, parents first
          /\ dirLevels < DirDepth /\ ~blocked
          /\ dirLevels' = DirDepth
          /\ mkdirs' = [mkdirs EXCEPT ![p] = @ + (DirDepth - dirLevels)]
          /\ pc' = [pc EXCEPT ![p] = "exists"]
          /\ UNCHANGED <<result, endFs>>
       \/ \* a non-directory is in the way: FileExistsError / NotADirectoryError
          /\ dirLevels < DirDepth /\ blocked
          /\ UNCHANGED <<dirLevels, mkdirs>>
          /\ Leave(p, "raised", "makedirs_failed", Fs)
       \/ \* mkdir fails (permissions, disk) after k components exist
          /\ dirLevels < DirDepth /\ ~blocked
          /\ \E k \in dirLevels..(DirDepth - 1) :
                /\ dirLevels' = k
                /\ mkdirs' = [mkdirs EXCEPT ![p] = @ + (k - dirLevels)]
                /\ Leave(p, "raised", "makedirs_failed", [Fs EXCEPT !.dirs = k])
    /\ UNCHANGED <<blocked, fileExists, fileData, urlContent, fetches, opened, pos,
                   sawOpened, startFs, avars>>

\* A check that takes an empty file for a missing one.
PathExistsNonEmpty == fileExists /\ fileData # <<>>

\* os.path.exists(OUTPUT_PATH)
PathExists == fileExists

\* The existence branch without its return: the download follows anyway.
ExistsNoReturn(p) ==
    /\ pc[p] = "exists"
    /\ sawOpened' = [sawOpened EXCEPT ![p] = \E q \in Run : opened[q]]
    /\ pc' = [pc EXCEPT ![p] = "urlopen"]
    /\ UNCHANGED <<result, endFs>>
    /\ UNCHANGED <<dirLevels, blocked, fileExists, fileData, urlContent, fetches, mkdirs,
                   opened, pos, startFs, avars>>

\* if os.path.exists(OUTPUT_PATH): print(...); return
Exists(p) ==
    /\ pc[p] = "exists"
    /\ sawOpened' = [sawOpened EXCEPT ![p] = \E q \in Run : opened[q]]
    /\ IF PathExists
       THEN Leave(p, "done", "exists", Fs)
       ELSE /\ pc' = [pc EXCEPT ![p] = "urlopen"]
            /\ UNCHANGED <<result, endFs>>
    /\ UNCHANGED <<dirLevels, blocked, fileExists, fileData, urlContent, fetches, mkdirs,
                   opened, pos, startFs, avars>>

\* urlretrieve, first half: the request.  It is answered (the response headers
\* are in), or it fails (DNS failure, refused connection, HTTP error status)
\* before OUTPUT_PATH has been touched.
UrlOpen(p) ==
    /\ pc[p] = "urlopen"
    /\ fetches' = [fetches EXCEPT ![p] = @ + 1]
    /\ \/ /\ pc' = [pc EXCEPT ![p] = "opendest"]
          /\ UNCHANGED <<result, endFs>>
       \/ Leave(p, "raised", "fetch_failed", Fs)
    /\ UNCHANGED <<dirLevels, blocked, fileExists, fileData, urlContent, mkdirs, opened,
                   pos, sawOpened, startFs, avars>>

\* urlretrieve, open(filename, 'wb'): creates OUTPUT_PATH or truncates it.
OpenDest(p) ==
    /\ pc[p] = "opendest"
    /\ fileExists' = TRUE
    /\ fileData' = <<>>
    /\ opened' = [opened EXCEPT ![p] = TRUE]
    /\ pos' = [pos EXCEPT ![p] = 0]
    /\ pc' = [pc EXCEPT ![p] = "transfer"]
    /\ UNCHANGED <<dirLevels, blocked, urlContent, result, fetches, mkdirs, sawOpened,
                   startFs, endFs, avars>>

\* write(block) at offset at of a file holding data: a hole is zero filled.
WriteAt(data, at, b) ==
    [i \in 1..(IF at + 1 > Len(data) THEN at + 1 ELSE Len(data)) |->
        IF i = at + 1 THEN b
        ELSE IF i <= Len(data) THEN data[i]
        ELSE 0]

\* A copy loop inside try/except: a broken connection ends the run as a success.
TransferSwallow(p) ==
    /\ pc[p] = "transfer"
    /\ \/ /\ pos[p] < Len(urlContent)
          /\ fileData' = WriteAt(fileData, pos[p], urlContent[pos[p] + 1])
          /\ pos' = [pos EXCEPT ![p] = @ + 1]
          /\ UNCHANGED <<pc, result, endFs, fileExists>>
       \/ /\ pos[p] = Len(urlContent)
          /\ UNCHANGED <<fileData, pos, fileExists>>
          /\ Leave(p, "done", "downloaded", Fs)
       \/ /\ UNCHANGED <<fileData, pos, fileExists>>
          /\ Leave(p, "done", "fetch_failed", Fs)
    /\ UNCHANGED <<dirLevels, blocked, urlContent, fetches, mkdirs, opened,
                   sawOpened, startFs, avars>>

\* urlretrieve, the copy loop: read a block and write it, until the response
\* ends.  The connection can break at any block (the read raises, or the
\* response ends short of Content-Length and ContentTooShortError is raised):
\* the file keeps what was written.
Transfer(p) ==
    /\ pc[p] = "transfer"
    /\ \/ /\ pos[p] < Len(urlContent)
          /\ fileData' = WriteAt(fileData, pos[p], urlContent[pos[p] + 1])
          /\ pos' = [pos EXCEPT ![p] = @ + 1]
          /\ UNCHANGED <<pc, result, endFs, fileExists>>
       \/ /\ pos[p] = Len(urlContent)
          /\ UNCHANGED <<fileData, pos, fileExists>>
          /\ Leave(p, "done", "downloaded", Fs)
       \/ /\ UNCHANGED <<fileData, pos, fileExists>>
          /\ Leave(p, "raised", "fetch_failed", Fs)
    /\ UNCHANGED <<dirLevels, blocked, urlContent, fetches, mkdirs, opened,
                   sawOpened, startFs, avars>>

\* One statement of one run of main().
Main(p) ==
    \/ Makedirs(p)
    \/ Exists(p)
    \/ UrlOpen(p)
    \/ OpenDest(p)
    \/ Transfer(p)


\* =========================================================================
\* agent/agent.py
\* =========================================================================

InitAgent ==
    /\ apc = "log_connecting"
    /\ connected = FALSE
    /\ room \in SUBSET Identity
    /\ roomEvents = 0
    /\ waiter = None
    /\ participant = None
    /\ model = Unbound
    /\ session = Unbound
    /\ agent = Unbound
    /\ calls = <<>>
    /\ log = <<>>
    /\ raised = None

\* No invocation of entrypoint, for the specifications that run the fetcher only.
IdleAgent ==
    /\ apc = "idle"
    /\ connected = FALSE
    /\ room = {}
    /\ roomEvents = 0
    /\ waiter = None
    /\ participant = None
    /\ model = Unbound
    /\ session = Unbound
    /\ agent = Unbound
    /\ calls = <<>>
    /\ log = <<>>
    /\ raised = None

\* What an awaited call can raise: an error, or the task's cancellation.
\* What a plain statement can raise: an error.
AwaitRaises == {"Exception", "CancelledError"}
PlainRaises == {"Exception"}

\* except BaseException: the cancellation is caught too.
CatchesBaseException(kind) == kind \in {"Exception", "CancelledError"}

\* except Exception as e: CancelledError derives from BaseException, not Exception.
Catches(kind) == kind = "Exception"

\* A statement of the try block raises: control goes to the handler when the
\* except clause matches, out of entrypoint when it does not.
Raise(kind) ==
    /\ raised' = kind
    /\ apc' = IF Catches(kind) THEN "except" ELSE "propagated"

\* The call expression is evaluated: the external operation is entered.
Invoke(op, arg) == calls' = Append(calls, [op |-> op, arg |-> arg, st |-> "pending"])

\* The operation entered last comes back.
Settle(st) == calls' = [calls EXCEPT ![Len(calls)].st = st]

Info(msg) == [level |-> "INFO", msg |-> msg]
Error(msg) == [level |-> "ERROR", msg |-> msg]

\* logger.info(f"Connecting to room {ctx.room.name}")
LogConnecting ==
    /\ apc = "log_connecting"
    /\ \/ /\ log' = Append(log, Info("Connecting to room"))
          /\ apc' = "connect"
          /\ UNCHANGED raised
       \/ /\ \E k \in PlainRaises : Raise(k)
          /\ UNCHANGED log
    /\ UNCHANGED <<connected, room, roomEvents, waiter, participant, model, session, agent,
                   calls, fvars>>

\* await ctx.connect(): the call is made
Connect ==
    /\ apc = "connect"
    /\ Invoke("connect", None)
    /\ apc' = "await_connect"
    /\ UNCHANGED <<connected, room, roomEvents, waiter, participant, model, session, agent,
                   log, raised, fvars>>

\* await ctx.connect(): the call comes back
ConnectDone ==
    /\ apc = "await_connect"
    /\ \/ /\ Settle("ok")
          /\ connected' = TRUE
          /\ apc' = "wait_for_participant"
          /\ UNCHANGED raised
       \/ /\ \E k \in AwaitRaises : Settle(k) /\ Raise(k)
          /\ UNCHANGED connected
    /\ UNCHANGED <<room, roomEvents, waiter, participant, model, session, agent, log, fvars>>

\* await ctx.wait_for_participant(): the call is made.  Someone already in the
\* room resolves it at once; otherwise it waits for the next one to join.
WaitForParticipant ==
    /\ apc = "wait_for_participant"
    /\ Invoke("wait_for_participant", None)
    /\ IF room = {} THEN waiter' = None ELSE waiter' \in room
    /\ apc' = "await_wait_for_participant"
    /\ UNCHANGED <<connected, room, roomEvents, participant, model, session, agent, log,
                   raised, fvars>>

\* A wait that gives up and hands back nobody.
WaitForParticipantDoneTimeout ==
    /\ apc = "await_wait_for_participant"
    /\ \/ /\ Settle("ok")
          /\ participant' = waiter
          /\ apc' = "log_participant"
          /\ UNCHANGED raised
       \/ /\ \E k \in AwaitRaises : Settle(k) /\ Raise(k)
          /\ UNCHANGED participant
    /\ UNCHANGED <<connected, room, roomEvents, waiter, model, session, agent, log, fvars>>

\* participant = await ctx.wait_for_participant(): the call comes back, with
\* the participant it was resolved with; there is no timeout.
WaitForParticipantDone ==
    /\ apc = "await_wait_for_participant"
    /\ \/ /\ waiter # None
          /\ Settle("ok")
          /\ participant' = waiter
          /\ apc' = "log_participant"
          /\ UNCHANGED raised
       \/ /\ \E k \in AwaitRaises : Settle(k) /\ Raise(k)
          /\ UNCHANGED participant
    /\ UNCHANGED <<connected, room, roomEvents, waiter, model, session, agent, log, fvars>>

\* logger.info(f"Participant connected: {participant.identity}")
LogParticipant ==
    /\ apc = "log_participant"
    /\ \/ /\ log' = Append(log, Info(participant))
          /\ apc' = "RealtimeModel"
          /\ UNCHANGED raised
       \/ /\ \E k \in PlainRaises : Raise(k)
          /\ UNCHANGED log
    /\ UNCHANGED <<connected, room, roomEvents, waiter, participant, model, session, agent,
                   calls, fvars>>

\* model = google.realtime.RealtimeModel(model=..., instructions=...)
\* (raises when GOOGLE_API_KEY is not set)
RealtimeModel ==
    /\ apc = "RealtimeModel"
    /\ \/ /\ calls' = Append(calls, [op |-> "RealtimeModel", arg |-> MODEL_NAME, st |-> "ok"])
          /\ model' = Bound([model |-> MODEL_NAME, instructions |-> MODEL_INSTRUCTIONS])
          /\ apc' = "AgentSession"
          /\ UNCHANGED raised
       \/ /\ \E k \in PlainRaises :
                /\ calls' = Append(calls, [op |-> "RealtimeModel", arg |-> MODEL_NAME, st |-> k])
                /\ Raise(k)
          /\ UNCHANGED model
    /\ UNCHANGED <<connected, room, roomEvents, waiter, participant, session, agent, log,
                   fvars>>

\* session = AgentSession(llm=model)
AgentSession ==
    /\ apc = "AgentSession"
    /\ \/ /\ calls' = Append(calls, [op |-> "AgentSession", arg |-> model[1].model, st |-> "ok"])
          /\ session' = Bound([llm |-> model[1]])
          /\ apc' = "Agent"
          /\ UNCHANGED raised
       \/ /\ \E k \in PlainRaises :
                /\ calls' = Append(calls, [op |-> "AgentSession", arg |-> model[1].model, st |-> k])
                /\ Raise(k)
          /\ UNCHANGED session
    /\ UNCHANGED <<connected, room, roomEvents, waiter, participant, model, agent, log, fvars>>

\* agent = Agent(instructions="You are Vanta.")
Agent ==
    /\ apc = "Agent"
    /\ \/ /\ calls' = Append(calls, [op |-> "Agent", arg |-> AGENT_INSTRUCTIONS, st |-> "ok"])
          /\ agent' = Bound([instructions |-> AGENT_INSTRUCTIONS])
          /\ apc' = "session_start"
          /\ UNCHANGED raised
       \/ /\ \E k \in PlainRaises :
                /\ calls' = Append(calls, [op |-> "Agent", arg |-> AGENT_INSTRUCTIONS, st |-> k])
                /\ Raise(k)
          /\ UNCHANGED agent
    /\ UNCHANGED <<connected, room, roomEvents, waiter, participant, model, session, log,
                   fvars>>

\* await session.start(ctx.room, agent): the call is made
SessionStart ==
    /\ apc = "session_start"
    /\ Invoke("session.start", agent[1].instructions)
    /\ apc' = "await_session_start"
    /\ UNCHANGED <<connected, room, roomEvents, waiter, participant, model, session, agent,
                   log, raised, fvars>>

\* session.start(...) and session.generate_reply(...) in the handler, again.
SessionStartDoneRetry ==
    /\ apc = "await_session_start"
    /\ \/ /\ Settle("ok")
          /\ apc' = "generate_reply"
          /\ UNCHANGED raised
       \/ /\ calls' = [calls EXCEPT ![Len(calls)].st = "Exception"]
          /\ apc' = "session_start"
          /\ UNCHANGED raised
    /\ UNCHANGED <<connected, room, roomEvents, waiter, participant, model, session, agent,
                   log, fvars>>

\* await session.start(ctx.room, agent): the call comes back
SessionStartDone ==
    /\ apc = "await_session_start"
    /\ \/ /\ Settle("ok")
          /\ apc' = "generate_reply"
          /\ UNCHANGED raised
       \/ \E k \in AwaitRaises : Settle(k) /\ Raise(k)
    /\ UNCHANGED <<connected, room, roomEvents, waiter, participant, model, session, agent,
                   log, fvars>>

\* await session.generate_reply(instructions=...): the call is made
GenerateReply ==
    /\ apc = "generate_reply"
    /\ Invoke("session.generate_reply", GREETING)
    /\ apc' = "await_generate_reply"
    /\ UNCHANGED <<connected, room, roomEvents, waiter, participant, model, session, agent,
                   log, raised, fvars>>

\* await session.generate_reply(instructions=...): the call comes back
GenerateReplyDone ==
    /\ apc = "await_generate_reply"
    /\ \/ /\ Settle("ok")
          /\ apc' = "future"
          /\ UNCHANGED raised
       \/ \E k \in AwaitRaises : Settle(k) /\ Raise(k)
    /\ UNCHANGED <<connected, room, roomEvents, waiter, participant, model, session, agent,
                   log, fvars>>

\* await asyncio.Future(): nobody holds the future, so nobody ever sets its
\* result or an exception on it; the wait ends only when the task is cancelled.
Future ==
    /\ apc = "future"
    /\ Raise("CancelledError")
    /\ UNCHANGED <<connected, room, roomEvents, waiter, participant, model, session, agent,
                   calls, log, fvars>>

\* A handler that logs and raises again.
ExceptReraise ==
    /\ apc = "except"
    /\ log' = Append(log, Error("CRITICAL ERROR"))
    /\ apc' = "propagated"
    /\ UNCHANGED <<connected, room, roomEvents, waiter, participant, model, session, agent,
                   calls, raised, fvars>>

\* except Exception as e: logger.error(f"CRITICAL ERROR: {e}", exc_info=True)
\* and entrypoint falls off its end.
Except ==
    /\ apc = "except"
    /\ log' = Append(log, Error("CRITICAL ERROR"))
    /\ apc' = "returned"
    /\ UNCHANGED <<connected, room, roomEvents, waiter, participant, model, session, agent,
                   calls, raised, fvars>>

\* The room, outside the program: someone joins.  A pending participant wait
\* that nobody has resolved yet is resolved with the one who joins.
Join(i) ==
    /\ apc # "idle"
    /\ roomEvents < MaxRoomEvents
    /\ i \notin room
    /\ room' = room \cup {i}
    /\ roomEvents' = roomEvents + 1
    /\ waiter' = IF apc = "await_wait_for_participant" /\ waiter = None THEN i ELSE waiter
    /\ UNCHANGED <<apc, connected, participant, model, session, agent, calls, log, raised,
                   fvars>>

\* The room, outside the program: someone leaves.
Depart(i) ==
    /\ apc # "idle"
    /\ roomEvents < MaxRoomEvents
    /\ i \in room
    /\ room' = room \ {i}
    /\ roomEvents' = roomEvents + 1
    /\ UNCHANGED <<apc, connected, waiter, participant, model, session, agent, calls, log,
                   raised, fvars>>

\* One statement of entrypoint(ctx).
Entrypoint ==
    \/ LogConnecting
    \/ Connect
    \/ ConnectDone
    \/ WaitForParticipant
    \/ WaitForParticipantDone
    \/ LogParticipant
    \/ RealtimeModel
    \/ AgentSession
    \/ Agent
    \/ SessionStart
    \/ SessionStartDone
    \/ GenerateReply
    \/ GenerateReplyDone
    \/ Future
    \/ Except

\* =========================================================================
\* specifications
\* =========================================================================

\* main() twice in succession.
Init == InitFetcher /\ IdleAgent
Next == \E p \in Run : StartSeq(p) \/ Main(p)
Spec == Init /\ [][Next]_vars

\* main() twice, concurrently.
NextConc == \E p \in Run : StartConc(p) \/ Main(p)
SpecConc == Init /\ [][NextConc]_vars

\* entrypoint(ctx) once, in a room where people come and go.
InitEntry == IdleFetcher /\ InitAgent
NextAgent == Entrypoint \/ \E i \in Identity : Join(i) \/ Depart(i)
SpecAgent == InitEntry /\ [][NextAgent]_vars

\* =========================================================================
\* properties
\* =========================================================================

Completed(p) == result[p] \in {"exists", "downloaded"}
FetchFailed(p) == result[p] = "fetch_failed"
File(fs) == [exists |-> fs.exists, data |-> fs.data]
Prefix(s, n) == SubSeq(s, 1, n)

OpsOf(op) == {i \in 1..Len(calls) : calls[i].op = op}
ErrorEntries == {i \in 1..Len(log) : log[i].level = "ERROR"}
Ops == [i \in 1..Len(calls) |-> calls[i].op]
Steps == <<"connect", "wait_for_participant", "RealtimeModel", "AgentSession", "Agent",
           "session.start", "session.generate_reply">>
\* The greeting call has come back: entrypoint has reached await asyncio.Future().
Suspended == \E i \in OpsOf("session.generate_reply") : calls[i].st = "ok"
\* Nobody has been in the room at any time of the invocation.
NobodyEver == room = {} /\ roomEvents = 0

\* C1, as stated: whatever the filesystem and the content served, two runs of
\* main() in succession that both complete make exactly one network fetch
\* between them, and the file after the second run is the file after the first.
C1_ExactlyOneFetch ==
    (Completed(1) /\ Completed(2)) =>
        /\ fetches[1] + fetches[2] = 1
        /\ File(endFs[2]) = File(endFs[1])

\* C1, amended: two runs of main() in succession that both complete make no
\* network fetch when the file was there before the first run and exactly one,
\* in the first run, when it was not; the second run never fetches, and the
\* file after the second run is the file after the first: the file as it was
\* before when it was there, the content served when it was not.
C1_IdempotentRuns ==
    (Completed(1) /\ Completed(2)) =>
        /\ fetches[1] = (IF startFs[1].exists THEN 0 ELSE 1)
        /\ fetches[2] = 0
        /\ endFs[1].exists
        /\ File(endFs[2]) = File(endFs[1])
        /\ endFs[1].data = (IF startFs[1].exists THEN startFs[1].data ELSE urlContent)

\* C1's case: the file is absent, the first run downloads a content of two or
\* more blocks and the second run finds it.
C1_Witness ==
    /\ ~startFs[1].exists
    /\ result[1] = "downloaded"
    /\ result[2] = "exists"
    /\ Len(urlContent) >= 2
    /\ fileData = urlContent

\* C2: a run of main() that starts with the destination file in place, whatever
\* is in it, makes no network request, never opens the file for writing, leaves
\* its content as it was, raises nothing and, when it ends, has returned
\* through the existence branch.
C2_ExistingFileUntouched ==
    \A p \in Run :
        (pc[p] # "idle" /\ startFs[p].exists) =>
            /\ fetches[p] = 0
            /\ ~opened[p]
            /\ pc[p] \in {"makedirs", "exists", "done"}
            /\ fileExists /\ fileData = startFs[p].data
            /\ pc[p] = "done" => (result[p] = "exists" /\ File(endFs[p]) = File(startFs[p]))

\* C2's case: a first run has returned that found an empty file in place.
C2_Witness ==
    /\ pc[1] = "done"
    /\ startFs[1].exists
    /\ startFs[1].data = <<>>

\* C3, as stated: a run whose fetch fails, at whatever point, ends by raising
\* and leaves no destination file.
C3_NoFileAfterFailure ==
    \A p \in Run :
        FetchFailed(p) => (pc[p] = "raised" /\ ~endFs[p].exists)

\* C3, amended: a run whose fetch fails ends by raising, never by returning,
\* after exactly one request.  When the request itself failed (before the
\* destination was opened) no destination file exists afterwards; when the
\* connection broke during the transfer the destination file is left behind,
\* holding exactly the blocks received before the failure.
C3_FailureRaisesAndKeepsPartial ==
    \A p \in Run :
        FetchFailed(p) =>
            /\ pc[p] = "raised"
            /\ fetches[p] = 1
            /\ ~startFs[p].exists
            /\ IF opened[p]
               THEN endFs[p].exists /\ endFs[p].data = Prefix(urlContent, pos[p])
               ELSE ~endFs[p].exists

\* C3's case: the connection broke in the middle of the transfer; a strict,
\* non-empty part of the content is on disk.
C3_Witness ==
    \E p \in Run :
        /\ FetchFailed(p)
        /\ endFs[p].exists
        /\ 0 < Len(endFs[p].data)
        /\ Len(endFs[p].data) < Len(urlContent)

\* C6: in two concurrent runs of main() the existence check is all that stands
\* between a run and its download.  When both runs have opened the
\* destination for writing, the file was absent at the start, each run did its
\* existence check before either had opened it, and each made its own network
\* request: nothing makes the second run notice the first.
C6_DoubleWriteIsTheRace ==
    \A p, q \in Run :
        (p # q /\ opened[p] /\ opened[q]) =>
            /\ ~sawOpened[p] /\ ~sawOpened[q]
            /\ ~startFs[p].exists /\ ~startFs[q].exists
            /\ fetches[p] = 1 /\ fetches[q] = 1

\* C6's case: the file was absent, both runs passed the existence check before
\* either wrote, both fetched, both wrote the destination, both returned.
C6_Witness ==
    /\ \A p \in Run : /\ ~startFs[p].exists
                      /\ ~sawOpened[p]
                      /\ fetches[p] = 1
                      /\ opened[p]
                      /\ pos[p] = Len(urlContent)
                      /\ result[p] = "downloaded"
    /\ Len(urlContent) >= 1

\* C7: a run of main() that is at or past the existence check, or has opened
\* the destination, has the whole destination directory in place, and has
\* created exactly the components that were missing when it started; a run
\* that started with the directory in place created nothing and did not fail
\* in makedirs.
C7_DirectoryBeforeCheckAndWrite ==
    \A p \in Run :
        /\ (pc[p] \in {"exists", "urlopen", "opendest", "transfer"}
                \/ result[p] \in {"exists", "downloaded", "fetch_failed"}
                \/ opened[p]) =>
              /\ dirLevels = DirDepth
              /\ mkdirs[p] = DirDepth - startFs[p].dirs
        /\ (pc[p] # "idle" /\ startFs[p].dirs = DirDepth) =>
              /\ mkdirs[p] = 0
              /\ result[p] # "makedirs_failed"
              /\ dirLevels = DirDepth

\* C7's case: the first run started with no directory at all and created all
\* of it before downloading; the second found it in place and created nothing.
C7_Witness ==
    /\ startFs[1].dirs = 0
    /\ mkdirs[1] = DirDepth
    /\ result[1] = "downloaded"
    /\ startFs[2].dirs = DirDepth
    /\ mkdirs[2] = 0
    /\ result[2] = "exists"

\* C4: when a statement of the try block raises an Exception, entrypoint does
\* not let it out: control is in the handler or entrypoint has returned, and
\* on return the log holds exactly one error entry.  No invocation logs more
\* than one.
C4_ExceptionLoggedOnceAndSwallowed ==
    /\ Cardinality(ErrorEntries) <= 1
    /\ raised = "Exception" =>
          /\ apc \in {"except", "returned"}
          /\ Cardinality(ErrorEntries) = (IF apc = "returned" THEN 1 ELSE 0)

\* C4's case: ctx.connect() raised, the error was logged and entrypoint returned.
C4_Witness ==
    /\ apc = "returned"
    /\ raised = "Exception"
    /\ Len(calls) = 1
    /\ calls[1].op = "connect"
    /\ calls[1].st = "Exception"
    /\ Cardinality(ErrorEntries) = 1

\* C5: session.generate_reply is entered only after session.start has come
\* back; and at the final suspension the model client has been constructed
\* once, with model "gemini-2.0-flash-exp", session.start and
\* session.generate_reply have each been called exactly once, in that order,
\* and both have come back.
C5_StartThenGreetOnce ==
    /\ \A g \in OpsOf("session.generate_reply") :
          \E i \in OpsOf("session.start") : i < g /\ calls[i].st = "ok"
    /\ apc = "future" =>
          /\ model = Bound([model |-> "gemini-2.0-flash-exp", instructions |-> MODEL_INSTRUCTIONS])
          /\ session = Bound([llm |-> model[1]])
          /\ Cardinality(OpsOf("RealtimeModel")) = 1
          /\ \A i \in OpsOf("RealtimeModel") : calls[i].arg = "gemini-2.0-flash-exp"
          /\ Cardinality(OpsOf("session.start")) = 1
          /\ Cardinality(OpsOf("session.generate_reply")) = 1
          /\ \A i \in OpsOf("session.start") \cup OpsOf("session.generate_reply") :
                calls[i].st = "ok"

\* C5's case: nothing raised, the participant wait was resolved, and
\* entrypoint is at the final suspension.
C5_Witness ==
    /\ apc = "future"
    /\ raised = None
    /\ participant \in Identity

\* C8: the model is constructed, the session started and the greeting issued
\* only after ctx.connect() has completed and the participant wait has handed
\* back a participant; and as long as nobody has ever been in the room and
\* nothing has raised, entrypoint is at or before the participant wait: no
\* participant, no model, no session start, no return.
C8_NothingBeforeParticipant ==
    /\ (model # Unbound \/ OpsOf("session.start") # {} \/ OpsOf("session.generate_reply") # {}) =>
          /\ connected
          /\ participant \in Identity
          /\ \E i \in OpsOf("wait_for_participant") : calls[i].st = "ok"
    /\ (NobodyEver /\ raised = None) =>
          /\ apc \in {"log_connecting", "connect", "await_connect", "wait_for_participant",
                      "await_wait_for_participant"}
          /\ participant = None
          /\ model = Unbound
          /\ OpsOf("session.start") = {}

\* C8's case: entrypoint is blocked in the participant wait of a room nobody
\* has ever been in.
C8_Witness ==
    /\ apc = "await_wait_for_participant"
    /\ NobodyEver
    /\ waiter = None
    /\ raised = None

\* C9: the external calls of one invocation are a prefix of the fixed sequence
\* connect, wait_for_participant, RealtimeModel, AgentSession, Agent,
\* session.start, session.generate_reply, so each is made at most once and
\* none before an earlier one; and once a statement has raised, no call is
\* made or changed any more.
C9_FailStopNoRetry ==
    /\ [](/\ Len(calls) <= Len(Steps)
          /\ Ops = Prefix(Steps, Len(calls)))
    /\ [][raised # None => calls' = calls]_vars

\* C9's case: RealtimeModel(...) raised as the third call, and entrypoint has
\* returned without making a fourth.
C9_Witness ==
    /\ apc = "returned"
    /\ raised = "Exception"
    /\ Len(calls) = 3
    /\ calls[3].op = "RealtimeModel"
    /\ calls[3].st = "Exception"

\* C10: entrypoint is at the final suspension only after the greeting call has
\* come back, with nothing raised and no error logged; from there it never
\* returns and never logs an error: it stays, or the task's cancellation goes
\* out of entrypoint uncaught.  A return always follows a caught Exception of
\* an earlier statement, and a cancellation is never caught and never logged.
C10_SuspendsUntilCancelled ==
    /\ apc = "future" => (Suspended /\ raised = None)
    /\ Suspended =>
          /\ apc \in {"future", "propagated"}
          /\ ErrorEntries = {}
          /\ apc = "propagated" => raised = "CancelledError"
    /\ apc = "returned" => (raised = "Exception" /\ ~Suspended)
    /\ raised = None => ErrorEntries = {}
    /\ raised = "CancelledError" => (apc = "propagated" /\ ErrorEntries = {})

\* C10's case: the task was cancelled while entrypoint was at the final
\* suspension.
C10_Witness ==
    /\ Suspended
    /\ apc = "propagated"
    /\ raised = "CancelledError"

=============================================================================
